---- MODULE Spec2Model ----
(***************************************************************************)
(* Model of the Catalog Client (src/src/api/pokeAPI.ts) and of the Capture *)
(* Screen (src/src/screens/ARScreen.tsx).                                  *)
(*                                                                         *)
(* Every `await` of the source is a suspension point: an async function is *)
(* a process whose pc names the promise it is waiting for, and one action  *)
(* is the resolution (or rejection) of that promise together with all the  *)
(* synchronous code that follows it up to the next await.                  *)
(*                                                                         *)
(* JSON scalars are modelled by their JSON text ("25", "null"); the value  *)
(* `undefined` has no JSON text and is the string "undefined".  A JS       *)
(* object is a record, a JS array a sequence.                              *)
(***************************************************************************)
EXTENDS Integers, Sequences, FiniteSets, TLC

VARIABLES
    store,      \* AsyncStorage: key -> cell
    calls,      \* Catalog Client invocations (fetchPokemonList / Detail / getPokemonBasic)
    platform,   \* Platform.OS
    device,     \* devices.find(d => d.position === 'back') is defined
    hasPermission,          \* useState<boolean | null>(null)
    permission,             \* the Camera.requestCameraPermission() promise
    selectedPokemonId,      \* useState<number>(25)
    selectedPokemonSprite,  \* useState<string | null>(null)
    lookups,    \* runs of the sprite effect
    captures,   \* takeCapture invocations
    now         \* Date.now()

clientVars == <<store, calls>>
screenVars == <<platform, device, hasPermission, permission, selectedPokemonId,
                selectedPokemonSprite, lookups, captures, now>>
vars == <<store, calls, platform, device, hasPermission, permission,
          selectedPokemonId, selectedPokemonSprite, lookups, captures, now>>

-----------------------------------------------------------------------------
(* Bounds of the model *)

\* top-level invocations of the Catalog Client in one run
MaxCalls == 2
\* number of results the index endpoint returns (the code asks for INITIAL_POKEMON_LIMIT)
MaxIndex == 2
\* fetchPokemonList invocations in flight at once
MaxListsInFlight == 1
\* takeCapture invocations in one run
MaxCaptures == 2
\* the latest value of Date.now()
MaxTime == 2
\* runs of the sprite effect in one run (the one on mount included)
MaxLookups == 3

-----------------------------------------------------------------------------
(* Constants of pokeAPI.ts *)

POKEMON_LIST_CACHE_KEY == "pokemon_list_cache_v2"
POKEMON_DETAIL_CACHE_PREFIX == "pokemon_detail_"
INITIAL_POKEMON_LIMIT == 21
CAPTURES_KEY == "captures"

Undefined == "undefined"
Null == "null"
EmptyObject == "{}"

\* the value `null` where an object is expected (a fetch that returned null)
NullV == [null |-> TRUE]

\* names the remote index serves, in index order
Catalog == <<"bulbasaur", "ivysaur", "venusaur", "charmander">>

Min(a, b) == IF a < b THEN a ELSE b
Max(S) == CHOOSE x \in S : \A y \in S : y <= x

\* the creatures of the page the index is asked for (?limit=..&offset=0)
Creatures == 1..Min(Min(MaxIndex, INITIAL_POKEMON_LIMIT), Len(Catalog))
\* useState<number>(25): the creature the screen starts with
DEFAULT_POKEMON_ID == 25
NameOf(c) == IF c = DEFAULT_POKEMON_ID THEN "pikachu" ELSE Catalog[c]
IdOf(c) == ToString(c)
IdOrNames == {NameOf(c) : c \in Creatures} \cup {IdOf(c) : c \in Creatures}
\* arguments of the invocations that do not come from fetchPokemonList: the
\* name and the id of the first creature
Args == {NameOf(1), IdOf(1)}
CreatureOf(k) == CHOOSE c \in Creatures \cup {DEFAULT_POKEMON_ID} : k \in {NameOf(c), IdOf(c)}

\* a key made from the creature's name whichever form the argument has
cacheKeyByName(idOrName) ==
    POKEMON_DETAIL_CACHE_PREFIX \o
        (IF idOrName = ToString(1) THEN Catalog[1] ELSE IF idOrName = ToString(2) THEN Catalog[2]
         ELSE idOrName)

\* const cacheKey = `${POKEMON_DETAIL_CACHE_PREFIX}${idOrName}`
cacheKey(idOrName) == POKEMON_DETAIL_CACHE_PREFIX \o idOrName

AllKeys == {POKEMON_LIST_CACHE_KEY, CAPTURES_KEY}
               \cup {POKEMON_DETAIL_CACHE_PREFIX \o k : k \in IdOrNames}

-----------------------------------------------------------------------------
(* AsyncStorage cells and JSON *)

Absent == [cell |-> "absent"]                \* getItem resolves to null
Corrupt == [cell |-> "corrupt"]              \* a string JSON.parse throws on
Text(v) == [cell |-> "json", v |-> v]        \* the JSON text of v

\* o[f] of JavaScript: a missing property reads as undefined
Get(o, f) == IF f \in DOMAIN o THEN o[f] ELSE Undefined

\* properties whose value is a JSON scalar or an opaque JSON value (a string here)
ScalarProps == {"id", "name", "stats", "spriteUrl", "speciesData", "weight", "height",
                "sprite", "photoUri", "timestamp"}

\* JSON.stringify of an object: a property whose value is undefined is left out
StringifyObject(o) ==
    [f \in {g \in DOMAIN o : ~(g \in ScalarProps /\ o[g] = Undefined)} |-> o[f]]

\* JSON.stringify of an array of objects
StringifyArray(a) == [i \in 1..Len(a) |-> StringifyObject(a[i])]

\* JSON.parse of a cell written by JSON.stringify
Parse(cell) == cell.v

-----------------------------------------------------------------------------
(* The remote API *)

\* bodies the answers of fetchPokemonDetail's request range over: sprites.other
\* is not read there
DetailShapes == {"full", "nofront", "nospecies", "notypes"}
\* the bodies among them that the requests made on behalf of fetchPokemonList
\* range over
ListedShapes == {"full", "nofront", "notypes"}
\* bodies the answers of getPokemonBasic's request range over: species is not
\* read there
BasicShapes == {"full", "noart", "nofront", "nosprites", "notypes"}

SpriteOf(c) == "front_" \o IdOf(c)
ArtworkOf(c) == "artwork_" \o IdOf(c)
SpeciesUrlOf(c) == "species/" \o IdOf(c)
SpeciesPayload(c) == "species_" \o IdOf(c)
ErrorBody == "{\"error\"}"

Sprites(c, shape) ==
    CASE shape = "noart" -> [front_default |-> SpriteOf(c)]
      [] shape = "nofront" -> [back_default |-> "back"]
      [] OTHER -> [front_default |-> SpriteOf(c),
                   other |-> ("official-artwork" :> [front_default |-> ArtworkOf(c)])]

\* body of GET {base}/pokemon/{idOrName}; a shape leaves one property out
Body(c, shape) ==
    LET all == [id |-> IdOf(c), name |-> NameOf(c),
                types |-> <<[type |-> [name |-> "grass"]], [type |-> [name |-> "poison"]]>>,
                abilities |-> <<[ability |-> [name |-> "overgrow"]]>>,
                stats |-> "[stats]",
                sprites |-> Sprites(c, shape),
                species |-> [url |-> SpeciesUrlOf(c)],
                weight |-> "69", height |-> "7"]
        drop == CASE shape = "nosprites" -> {"sprites"}
                  [] shape = "nospecies" -> {"species"}
                  [] shape = "notypes" -> {"types"}
                  [] OTHER -> {}
    IN  [f \in DOMAIN all \ drop |-> all[f]]

\* An answer to a request for a JSON body: the request fails (the fetch
\* rejects, the status is not ok, or the body does not parse), or a body arrives
Failures == {[fail |-> "reject"], [fail |-> "notok"], [fail |-> "badjson"]}
Answered(body) == [json |-> body]
IsFailure(answer) == "fail" \in DOMAIN answer

\* answers of GET {base}/pokemon/{idOrName} for creature c
DetailResponses(c, parent) ==
    Failures \cup {Answered(Body(c, s)) : s \in IF parent = 0 THEN DetailShapes ELSE ListedShapes}
BasicResponses(c) == Failures \cup {Answered(Body(c, s)) : s \in BasicShapes}

\* answers of GET {species.url}; the code never looks at the status, so a
\* non-ok answer with a JSON body ("errjson") is a body like any other
SpeciesResponses(parent) ==
    IF parent = 0 THEN {"reject", "badjson", "errjson", "ok"} ELSE {"reject", "badjson", "ok"}

\* answers of GET {base}/pokemon?limit=..: a failure, a body without
\* `results`, or the first n names of the catalog
IndexResponses ==
    Failures \cup {Answered([count |-> "1302"])}
             \cup {Answered([results |-> SubSeq(Catalog, 1, n)]) : n \in 0..Max(Creatures \cup {0})}

-----------------------------------------------------------------------------
(* Pure code of pokeAPI.ts *)

\* a.map(x => x[outer][inner]) over an array of objects
MapName(a, outer, inner) == [i \in 1..Len(a) |-> a[i][outer][inner]]

\* lines 107-117 throw a TypeError when .map or .front_default is read off undefined
DetailThrows(detailData) ==
    \/ "types" \notin DOMAIN detailData
    \/ "abilities" \notin DOMAIN detailData
    \/ "sprites" \notin DOMAIN detailData

\* the object literal of lines 107-117
pokemonDetail(detailData, speciesData) ==
    [id |-> Get(detailData, "id"),
     name |-> Get(detailData, "name"),
     types |-> MapName(detailData.types, "type", "name"),
     abilities |-> MapName(detailData.abilities, "ability", "name"),
     stats |-> Get(detailData, "stats"),
     spriteUrl |-> Get(detailData.sprites, "front_default"),
     speciesData |-> speciesData,
     weight |-> Get(detailData, "weight"),
     height |-> Get(detailData, "height")]

\* speciesData after the inner try of lines 99-105, given the species answer
speciesDataOf(c, answer) ==
    CASE answer = "ok" -> SpeciesPayload(c)
      [] answer = "errjson" -> ErrorBody
      [] OTHER -> EmptyObject

\* x || y of JavaScript on strings and undefined/null
OrElse(x, y) == IF x \in {Undefined, Null, ""} THEN y ELSE x

\* json.sprites?.other?.["official-artwork"]?.front_default
ArtworkSprite(json) ==
    IF "sprites" \notin DOMAIN json THEN Undefined
    ELSE IF "other" \notin DOMAIN json.sprites THEN Undefined
    ELSE IF "official-artwork" \notin DOMAIN json.sprites.other THEN Undefined
    ELSE Get(json.sprites.other["official-artwork"], "front_default")

\* json.sprites?.front_default
FrontSprite(json) ==
    IF "sprites" \notin DOMAIN json THEN Undefined ELSE Get(json.sprites, "front_default")

\* the object getPokemonBasic returns once resp.json() has resolved (lines 140-149)
basicLookup(json) ==
    [id |-> Get(json, "id"),
     name |-> Get(json, "name"),
     sprite |-> OrElse(ArtworkSprite(json), OrElse(FrontSprite(json), Null)),
     types |-> IF "types" \in DOMAIN json
               THEN MapName(json.types, "type", "name") ELSE <<>>]

-----------------------------------------------------------------------------
(* Invocations of the Catalog Client *)

NoData == [none |-> TRUE]

\* calls that have completed
Done == {i \in 1..Len(calls) : calls[i].pc = "done"}
TopLevel == {i \in 1..Len(calls) : calls[i].parent = 0}
Children(i) == {j \in 1..Len(calls) : calls[j].parent = i}

\* a call at its first await: getItem for the cached operations, fetch for
\* getPokemonBasic (one request issued)
NewCall(op, arg, parent) ==
    [op |-> op, arg |-> arg, parent |-> parent,
     pc |-> IF op = "basic" THEN "fetch" ELSE "read",
     status |-> "pending",
     rd |-> "none",                       \* how the cache read ended
     primary |-> "none",                  \* how the index / primary detail request ended
     species |-> "none",                  \* how the species request ended
     net |-> IF op = "basic" THEN 1 ELSE 0,   \* requests this call issued itself
     data |-> NoData,                     \* detailData
     results |-> <<>>,                    \* results (what Promise.all resolved to)
     val |-> IF op = "list" THEN <<>> ELSE NullV,   \* pokemonDetail / validResults / the value returned
     wrote |-> FALSE,                     \* its setItem resolved
     prior |-> IF parent = 0 THEN Done \cap TopLevel ELSE {}]   \* top-level calls completed before it began

\* what happened to a call is recorded in rd, primary and species for the
\* invocations made from outside; the calls fetchPokemonList makes are
\* observed through their value and their requests only
Note(c, field, what) == IF c.parent = 0 THEN [c EXCEPT ![field] = what] ELSE c

\* a call ends; its locals are gone
Return(c, v) ==
    [c EXCEPT !.pc = "done", !.status = "returned", !.val = v, !.data = NoData, !.results = <<>>]
Raise(c) ==
    [c EXCEPT !.pc = "done", !.status = "raised", !.data = NoData, !.results = <<>>]

\* a fetchPokemonDetail promise after Promise.all has taken its value: nothing
\* refers to it any more
Collected(c) ==
    [c EXCEPT !.pc = "collected", !.rd = "none", !.primary = "none", !.species = "none",
              !.net = 0, !.val = NullV, !.wrote = FALSE]

\* requests issued by the calls in S
RECURSIVE NetSum(_)
NetSum(S) ==
    IF S = {} THEN 0
    ELSE LET j == CHOOSE x \in S : TRUE IN calls[j].net + NetSum(S \ {j})

\* requests issued by call i and by the fetchPokemonDetail calls it made
NetOf(i) == calls[i].net + NetSum(Children(i))

\* ---- fetchPokemonDetail ----

\* setItem moved out of the try of lines 92-126
DetailHandlersWriteOutside(at) ==
    CASE at = "read" -> <<"ignore">>
      [] at = "fetch" -> <<"null">>
      [] at = "species" -> <<"empty", "null">>
      [] at = "build" -> <<"null">>
      [] at = "write" -> <<>>

\* the catch clauses around each step of fetchPokemonDetail, innermost first
DetailHandlers(at) ==
    CASE at = "read" -> <<"ignore">>              \* lines 83-90
      [] at = "fetch" -> <<"null">>               \* lines 92-126
      [] at = "species" -> <<"empty", "null">>    \* lines 100-105 inside 92-126
      [] at = "build" -> <<"null">>
      [] at = "write" -> <<"null">>

\* lines 107-121 up to the await of setItem, with speciesData settled
AfterSpecies(c, detailData, speciesData) ==
    IF DetailThrows(detailData)
    THEN IF DetailHandlers("build") = <<>> THEN Raise(c) ELSE Return(c, NullV)
    ELSE [c EXCEPT !.pc = "write", !.data = NoData,
                   !.val = pokemonDetail(detailData, speciesData)]

\* a throw at step `at` of fetchPokemonDetail, c.data holding detailData
DetailOnThrow(c, at) ==
    LET h == DetailHandlers(at)
    IN  IF h = <<>> THEN Raise(c)
        ELSE CASE Head(h) = "ignore" -> [c EXCEPT !.pc = "fetch", !.net = @ + 1]
               [] Head(h) = "empty" -> AfterSpecies(c, c.data, EmptyObject)
               [] Head(h) = "null" -> Return(c, NullV)

StartDetail(k) ==
    /\ Cardinality(TopLevel) < MaxCalls
    /\ calls' = Append(calls, NewCall("detail", k, 0))
    /\ UNCHANGED <<store, screenVars>>

\* the cache check with the early return of line 86 lost: a hit falls through
detailCacheCheckNoReturn(c, ok, cell) ==
    IF ~ok THEN DetailOnThrow(Note(c, "rd", "fail"), "read")
    ELSE IF cell = Absent THEN [Note(c, "rd", "miss") EXCEPT !.pc = "fetch", !.net = @ + 1]
    ELSE IF cell = Corrupt THEN DetailOnThrow(Note(c, "rd", "unparsable"), "read")
    ELSE [Note(c, "rd", "hit") EXCEPT !.pc = "fetch", !.net = @ + 1]

\* lines 83-94 for call c: getItem rejected (~ok) or resolved to `cell`; a hit
\* returns, anything else issues the fetch
detailCacheCheck(c, ok, cell) ==
    IF ~ok THEN DetailOnThrow(Note(c, "rd", "fail"), "read")
    ELSE IF cell = Absent THEN [Note(c, "rd", "miss") EXCEPT !.pc = "fetch", !.net = @ + 1]
    ELSE IF cell = Corrupt THEN DetailOnThrow(Note(c, "rd", "unparsable"), "read")
    ELSE Return(Note(c, "rd", "hit"), Parse(cell))

DetailRead(i) ==
    /\ calls[i].op = "detail" /\ calls[i].pc = "read"
    /\ \E ok \in BOOLEAN :
          calls' = [calls EXCEPT ![i] =
                       detailCacheCheck(calls[i], ok, store[cacheKey(calls[i].arg)])]
    /\ UNCHANGED <<store, screenVars>>

\* lines 94-101: the primary answer arrives; the species fetch is issued
DetailFetch(i) ==
    /\ calls[i].op = "detail" /\ calls[i].pc = "fetch"
    /\ \E answer \in DetailResponses(CreatureOf(calls[i].arg), calls[i].parent) :
          LET c == Note(calls[i], "primary", IF IsFailure(answer) THEN "fail"
                                             ELSE IF DetailThrows(answer.json) THEN "malformed"
                                             ELSE "ok")
          IN  calls' = [calls EXCEPT ![i] =
                  IF IsFailure(answer) THEN DetailOnThrow(c, "fetch")
                  ELSE IF "species" \notin DOMAIN answer.json
                       THEN DetailOnThrow([Note(c, "species", "failed") EXCEPT !.data = answer.json],
                                          "species")
                  ELSE [c EXCEPT !.pc = "species", !.net = @ + 1, !.data = answer.json]]
    /\ UNCHANGED <<store, screenVars>>

\* lines 101-120: the species answer arrives; the entry is built and setItem issued
DetailSpecies(i) ==
    /\ calls[i].op = "detail" /\ calls[i].pc = "species"
    /\ \E answer \in SpeciesResponses(calls[i].parent) :
          LET c == Note(calls[i], "species", IF answer \in {"reject", "badjson"}
                                             THEN "failed" ELSE answer)
          IN  calls' = [calls EXCEPT ![i] =
                  IF answer \in {"reject", "badjson"} THEN DetailOnThrow(c, "species")
                  ELSE AfterSpecies(c, c.data, speciesDataOf(CreatureOf(c.arg), answer))]
    /\ UNCHANGED <<store, screenVars>>

\* lines 120-126: setItem settles
DetailWrite(i) ==
    /\ calls[i].op = "detail" /\ calls[i].pc = "write"
    /\ \E ok \in BOOLEAN :
          LET c == calls[i]
          IN  IF ok
              THEN /\ store' = [store EXCEPT ![cacheKey(c.arg)] = Text(StringifyObject(c.val))]
                   /\ calls' = [calls EXCEPT ![i] = Return([c EXCEPT !.wrote = TRUE], c.val)]
              ELSE /\ calls' = [calls EXCEPT ![i] = DetailOnThrow(c, "write")]
                   /\ UNCHANGED store
    /\ UNCHANGED screenVars

\* ---- fetchPokemonList ----

\* the index request moved out of the try of lines 40-70
ListHandlersIndexOutside(at) ==
    CASE at = "read" -> <<"ignore">>
      [] at = "index" -> <<>>
      [] at = "join" -> <<"empty">>
      [] at = "write" -> <<"empty">>

\* the catch clauses around each step of fetchPokemonList, innermost first
ListHandlers(at) ==
    CASE at = "read" -> <<"ignore">>     \* lines 29-37
      [] at = "index" -> <<"empty">>     \* lines 40-70
      [] at = "join" -> <<"empty">>
      [] at = "write" -> <<"empty">>

ListOnThrow(c, at) ==
    LET h == ListHandlers(at)
    IN  IF h = <<>> THEN Raise(c)
        ELSE CASE Head(h) = "ignore" -> [c EXCEPT !.pc = "index", !.net = @ + 1]
               [] Head(h) = "empty" -> Return(c, <<>>)

\* results.filter(p => p !== null)
RECURSIVE FilterNonNull(_)
FilterNonNull(results) ==
    IF results = <<>> THEN <<>>
    ELSE IF Head(results) = NullV THEN FilterNonNull(Tail(results))
    ELSE <<Head(results)>> \o FilterNonNull(Tail(results))

\* the values the fetchPokemonDetail calls of list call i resolved to, in index order
RECURSIVE ResultsFrom(_, _)
ResultsFrom(i, j) ==
    IF j > Len(calls) THEN <<>>
    ELSE IF calls[j].parent = i THEN <<calls[j].val>> \o ResultsFrom(i, j + 1)
    ELSE ResultsFrom(i, j + 1)

StartList ==
    /\ Cardinality(TopLevel) < MaxCalls
    /\ Cardinality({i \in 1..Len(calls) : calls[i].op = "list" /\ calls[i].pc # "done"}) < MaxListsInFlight
    /\ calls' = Append(calls, NewCall("list", "", 0))
    /\ UNCHANGED <<store, screenVars>>

\* the cache check with the early return of line 33 lost: a hit falls through
listCacheCheckNoReturn(c, ok, cell) ==
    IF ~ok THEN ListOnThrow(Note(c, "rd", "fail"), "read")
    ELSE IF cell = Absent THEN [Note(c, "rd", "miss") EXCEPT !.pc = "index", !.net = @ + 1]
    ELSE IF cell = Corrupt THEN ListOnThrow(Note(c, "rd", "unparsable"), "read")
    ELSE [Note(c, "rd", "hit") EXCEPT !.pc = "index", !.net = @ + 1]

\* lines 29-45 for call c: getItem rejected (~ok) or resolved to `cell`; a hit
\* returns, anything else issues the index request
listCacheCheck(c, ok, cell) ==
    IF ~ok THEN ListOnThrow(Note(c, "rd", "fail"), "read")
    ELSE IF cell = Absent THEN [Note(c, "rd", "miss") EXCEPT !.pc = "index", !.net = @ + 1]
    ELSE IF cell = Corrupt THEN ListOnThrow(Note(c, "rd", "unparsable"), "read")
    ELSE Return(Note(c, "rd", "hit"), Parse(cell))

ListRead(i) ==
    /\ calls[i].op = "list" /\ calls[i].pc = "read"
    /\ \E ok \in BOOLEAN :
          calls' = [calls EXCEPT ![i] = listCacheCheck(calls[i], ok, store[POKEMON_LIST_CACHE_KEY])]
    /\ UNCHANGED <<store, screenVars>>

\* lines 43-54: the index answer arrives; one fetchPokemonDetail per result is
\* called (each runs to its getItem) and Promise.all awaits them
ListIndex(i) ==
    /\ calls[i].op = "list" /\ calls[i].pc = "index"
    /\ \E answer \in IndexResponses :
          LET failed == IsFailure(answer) \/ "results" \notin DOMAIN answer.json
              c == [calls[i] EXCEPT !.primary = IF failed THEN "fail" ELSE "ok"]
          IN  IF failed
              THEN calls' = [calls EXCEPT ![i] = ListOnThrow(c, "index")]
              ELSE LET names == answer.json.results
                   IN  calls' = [calls EXCEPT ![i] = [c EXCEPT !.pc = "join"]]
                                \o [n \in 1..Len(names) |-> NewCall("detail", names[n], i)]
    /\ UNCHANGED <<store, screenVars>>

\* Promise.race in place of Promise.all: the first promise to settle resumes the caller
anySettled(i) == Children(i) = {} \/ \E j \in Children(i) : j \in Done

\* Promise.all(promises) of list call i settles once every promise has
\* (none rejects: fetchPokemonDetail catches everything)
allSettled(i) == Children(i) \subseteq Done

\* lines 54-63: Promise.all settles; the nulls are dropped and setItem is issued
ListJoin(i) ==
    /\ calls[i].op = "list" /\ calls[i].pc = "join"
    /\ allSettled(i)
    /\ LET c == [calls[i] EXCEPT !.net = NetOf(i)]
           results == ResultsFrom(i, 1)
       IN  calls' = [j \in 1..Len(calls) |->
               IF j \in Children(i) THEN Collected(calls[j])
               ELSE IF j # i THEN calls[j]
               ELSE IF \E k \in Children(i) : calls[k].status = "raised"
                    THEN ListOnThrow(c, "join")
                    ELSE [c EXCEPT !.pc = "write", !.results = results,
                                   !.val = FilterNonNull(results)]]
    /\ UNCHANGED <<store, screenVars>>

\* lines 60-70: setItem settles
ListWrite(i) ==
    /\ calls[i].op = "list" /\ calls[i].pc = "write"
    /\ \E ok \in BOOLEAN :
          LET c == calls[i]
          IN  IF ok
              THEN /\ store' = [store EXCEPT ![POKEMON_LIST_CACHE_KEY] = Text(StringifyArray(c.val))]
                   /\ calls' = [calls EXCEPT ![i] = Return([c EXCEPT !.wrote = TRUE], c.val)]
              ELSE /\ calls' = [calls EXCEPT ![i] = ListOnThrow(c, "write")]
                   /\ UNCHANGED store
    /\ UNCHANGED screenVars

\* ---- getPokemonBasic ----

\* the catch clauses around each step of getPokemonBasic, innermost first
BasicHandlers(at) == CASE at = "fetch" -> <<"null">>     \* lines 135-153

StartBasic(k) ==
    /\ Cardinality(TopLevel) < MaxCalls
    /\ calls' = Append(calls, NewCall("basic", k, 0))
    /\ UNCHANGED <<store, screenVars>>

\* lines 136-153: the answer arrives
BasicFetch(i) ==
    /\ calls[i].op = "basic" /\ calls[i].pc = "fetch"
    /\ \E answer \in BasicResponses(CreatureOf(calls[i].arg)) :
          LET c == [calls[i] EXCEPT !.primary = IF IsFailure(answer) THEN "fail" ELSE "ok"]
          IN  calls' = [calls EXCEPT ![i] =
                  IF IsFailure(answer)
                  THEN IF BasicHandlers("fetch") = <<>> THEN Raise(c) ELSE Return(c, NullV)
                  ELSE Return(c, basicLookup(answer.json))]
    /\ UNCHANGED <<store, screenVars>>

-----------------------------------------------------------------------------
(* The Catalog Client on its own *)

\* the store a run begins with: nothing cached, or every cache key holding a
\* value that is not JSON (left by something other than this code)
InitialStores ==
    {[k \in AllKeys |-> IF k = CAPTURES_KEY THEN Absent ELSE cell] : cell \in {Absent, Corrupt}}

\* the component as constructed: rendered once, no effect run yet
Unmounted ==
    /\ hasPermission = Null
    /\ permission = "unrequested"
    /\ selectedPokemonId = DEFAULT_POKEMON_ID
    /\ selectedPokemonSprite = Null
    /\ lookups = <<>>
    /\ captures = <<>>
    /\ now = 0

ScreenIdle ==
    /\ platform = "android"
    /\ device = TRUE
    /\ Unmounted

ClientInit ==
    /\ store \in InitialStores
    /\ calls = <<>>
    /\ ScreenIdle

ClientNext ==
    \/ StartList
    \/ \E k \in Args : StartDetail(k)
    \/ \E k \in Args : StartBasic(k)
    \/ \E i \in 1..Len(calls) : ListRead(i)
    \/ \E i \in 1..Len(calls) : ListIndex(i)
    \/ \E i \in 1..Len(calls) : ListJoin(i)
    \/ \E i \in 1..Len(calls) : ListWrite(i)
    \/ \E i \in 1..Len(calls) : DetailRead(i)
    \/ \E i \in 1..Len(calls) : DetailFetch(i)
    \/ \E i \in 1..Len(calls) : DetailSpecies(i)
    \/ \E i \in 1..Len(calls) : DetailWrite(i)
    \/ \E i \in 1..Len(calls) : BasicFetch(i)

ClientSpec == ClientInit /\ [][ClientNext]_vars

\* fetchPokemonDetail on its own: any number of overlapping invocations
DetailNext ==
    \/ \E k \in Args : StartDetail(k)
    \/ \E i \in 1..Len(calls) : DetailRead(i)
    \/ \E i \in 1..Len(calls) : DetailFetch(i)
    \/ \E i \in 1..Len(calls) : DetailSpecies(i)
    \/ \E i \in 1..Len(calls) : DetailWrite(i)

DetailSpec == ClientInit /\ [][DetailNext]_vars

-----------------------------------------------------------------------------
(* The Capture Screen (ARScreen.tsx) *)

\* what the render of lines 84-139 returns
View ==
    IF hasPermission = Null \/ ~device THEN "loading"          \* lines 84-90
    ELSE IF hasPermission = "false" THEN "denied"              \* lines 91-97
    ELSE "ready"                                               \* lines 99-139

\* a ref that outlives the <Camera> element: set once permission was granted
cameraCurrentKept == hasPermission = "true"

\* camera.current: the ref is set while <Camera ref={camera}> is rendered
cameraCurrent == View = "ready"

\* answers of Camera.requestCameraPermission(); "rejected" is the promise rejecting
PermissionAnswers == {"granted", "denied", "restricted", "rejected"}

\* setHasPermission(status !== "denied")
grantedStateNotDenied(status) == IF status # "denied" THEN "true" ELSE "false"

\* setHasPermission(status === "granted")
grantedState(status) == IF status = "granted" THEN "true" ELSE "false"

\* lines 34-51: both effects run after the first render: the permission is
\* requested and getPokemonBasic(selectedPokemonId) is called
Mount ==
    /\ permission = "unrequested"
    /\ permission' = "pending"
    /\ lookups' = Append(lookups, [id |-> selectedPokemonId, pc |-> "fetch"])
    /\ UNCHANGED <<store, calls, platform, device, hasPermission, selectedPokemonId,
                   selectedPokemonSprite, captures, now>>

\* lines 36-37: the permission promise settles
PermissionAnswer ==
    /\ permission = "pending"
    /\ \E status \in PermissionAnswers :
          /\ permission' = status
          /\ hasPermission' = IF status = "rejected" THEN hasPermission
                               ELSE grantedState(status)
    /\ UNCHANGED <<store, calls, platform, device, selectedPokemonId,
                   selectedPokemonSprite, lookups, captures, now>>

\* useCameraDevices() reports another device list: the back camera appears or goes
DevicesChanged ==
    /\ permission # "unrequested"
    /\ device' = ~device
    /\ UNCHANGED <<store, calls, platform, hasPermission, permission, selectedPokemonId,
                   selectedPokemonSprite, lookups, captures, now>>

\* data?.sprite || null
spriteOf(data) == IF data = NullV THEN Null ELSE OrElse(Get(data, "sprite"), Null)

\* lines 45-46: getPokemonBasic settles and the overlay sprite is set
LookupResume(i) ==
    /\ lookups[i].pc = "fetch"
    /\ \E answer \in BasicResponses(lookups[i].id) :
          LET data == IF IsFailure(answer) THEN NullV ELSE basicLookup(answer.json)
          IN  selectedPokemonSprite' = spriteOf(data)
    /\ lookups' = [lookups EXCEPT ![i].pc = "done"]
    /\ UNCHANGED <<store, calls, platform, device, hasPermission, permission,
                   selectedPokemonId, captures, now>>

\* ---- takeCapture ----

\* getItem and the parse moved out of the try of lines 55-81
CaptureHandlersReadOutside(at) ==
    CASE at = "photo" -> <<"alert">>
      [] at = "read" -> <<>>
      [] at = "write" -> <<"alert">>

\* the catch clauses around each step of takeCapture, innermost first
CaptureHandlers(at) ==
    CASE at = "photo" -> <<"alert">>     \* lines 55-81
      [] at = "read" -> <<"alert">>
      [] at = "write" -> <<"alert">>

NoEntry == [none |-> TRUE]

\* lines 78-81, or the throw leaving takeCapture
CaptureOnThrow(c, at) ==
    IF CaptureHandlers(at) = <<>>
    THEN [c EXCEPT !.pc = "done", !.status = "raised", !.existing = <<>>]
    ELSE [c EXCEPT !.pc = "done", !.status = "returned", !.notice = "Error", !.existing = <<>>]

\* Platform.OS === "android" ? "file://" + photo.path : photo.path
photoUriOf(os, path) == IF os = "android" THEN "file://" \o path ELSE path

\* the object literal with `sprite: selectedPokemonSprite ?? undefined`
entryOfSpriteUndefined(c, photoUri, time) ==
    [id |-> ToString(c.id),
     name |-> "pokemon-" \o ToString(c.id),
     sprite |-> IF c.sprite = Null THEN Undefined ELSE c.sprite,
     photoUri |-> photoUri,
     timestamp |-> ToString(time)]

\* the object literal of lines 64-70; id and sprite are those of the render
\* whose takeCapture was called
entryOf(c, photoUri, time) ==
    [id |-> ToString(c.id),
     name |-> "pokemon-" \o ToString(c.id),
     sprite |-> c.sprite,
     photoUri |-> photoUri,
     timestamp |-> ToString(time)]

\* existing.unshift(entry) in place of push
pushFront(existing, entry) == <<entry>> \o existing

\* existing.push(entry)
push(existing, entry) == Append(existing, entry)

\* lines 53-58: takeCapture() is called; without a camera it returns at once
TakeCapture ==
    /\ permission # "unrequested"
    /\ Len(captures) < MaxCaptures
    /\ LET c == [pc |-> "photo", status |-> "pending",
                 notice |-> "none",                     \* the Alert shown
                 id |-> selectedPokemonId,              \* the state the closure holds
                 sprite |-> selectedPokemonSprite,
                 camera |-> cameraCurrent,              \* camera.current was set
                 prior |-> {j \in 1..Len(captures) : captures[j].pc = "done"},
                 path |-> "", time |-> 0,               \* photo.path and Date.now()
                 entry |-> NoEntry, existing |-> <<>>,
                 rd |-> "none", wr |-> "none"]          \* how getItem and setItem ended
       IN  captures' = Append(captures,
               IF ~cameraCurrent THEN [c EXCEPT !.pc = "done", !.status = "returned"] ELSE c)
    /\ UNCHANGED <<store, calls, platform, device, hasPermission, permission,
                   selectedPokemonId, selectedPokemonSprite, lookups, now>>

\* lines 56-72: takePhoto settles; the entry is built and getItem issued
CapturePhoto(i) ==
    /\ captures[i].pc = "photo"
    /\ \E ok \in BOOLEAN, t \in now..MaxTime :
          LET c == captures[i]
              path == "/photo" \o ToString(i)
          IN  IF ok
              THEN /\ captures' = [captures EXCEPT ![i] =
                          [c EXCEPT !.pc = "read", !.path = path, !.time = t,
                                    !.entry = entryOf(c, photoUriOf(platform, path), t)]]
                   /\ now' = t
              ELSE /\ captures' = [captures EXCEPT ![i] = CaptureOnThrow(c, "photo")]
                   /\ UNCHANGED now
    /\ UNCHANGED <<store, calls, platform, device, hasPermission, permission,
                   selectedPokemonId, selectedPokemonSprite, lookups>>

\* lines 72-75: getItem settles; the list is parsed, the entry pushed and
\* setItem issued
CaptureRead(i) ==
    /\ captures[i].pc = "read"
    /\ \E ok \in BOOLEAN :
          LET c == captures[i]
              cell == store[CAPTURES_KEY]
          IN  captures' = [captures EXCEPT ![i] =
                  IF ~ok THEN CaptureOnThrow([c EXCEPT !.rd = "fail"], "read")
                  ELSE IF cell = Corrupt THEN CaptureOnThrow([c EXCEPT !.rd = "unparsable"], "read")
                  ELSE [c EXCEPT !.pc = "write",
                                 !.rd = IF cell = Absent THEN "absent" ELSE "list",
                                 !.existing = push(IF cell = Absent THEN <<>> ELSE Parse(cell),
                                                   c.entry)]]
    /\ UNCHANGED <<store, calls, platform, device, hasPermission, permission,
                   selectedPokemonId, selectedPokemonSprite, lookups, now>>

\* lines 75-81: setItem settles; the notice is shown
CaptureWrite(i) ==
    /\ captures[i].pc = "write"
    /\ \E ok \in BOOLEAN :
          LET c == captures[i]
          IN  IF ok
              THEN /\ store' = [store EXCEPT ![CAPTURES_KEY] = Text(StringifyArray(c.existing))]
                   /\ captures' = [captures EXCEPT ![i] =
                          [c EXCEPT !.pc = "done", !.status = "returned", !.wr = "ok",
                                    !.notice = "Captured!", !.existing = <<>>]]
              ELSE /\ captures' = [captures EXCEPT ![i] =
                          CaptureOnThrow([c EXCEPT !.wr = "fail"], "write")]
                   /\ UNCHANGED store
    /\ UNCHANGED <<calls, platform, device, hasPermission, permission,
                   selectedPokemonId, selectedPokemonSprite, lookups, now>>

\* a record an earlier session left under 'captures'
OldRecord ==
    [id |-> "7", name |-> "pokemon-7", sprite |-> Null, photoUri |-> "file:///old",
     timestamp |-> "0"]

ScreenInit ==
    /\ store \in {[k \in AllKeys |-> IF k = CAPTURES_KEY THEN cell ELSE Absent] :
                     cell \in {Absent, Corrupt, Text(<<OldRecord>>)}}
    /\ calls = <<>>
    /\ platform \in {"android", "ios"}
    /\ device \in BOOLEAN
    /\ Unmounted

ScreenNext ==
    \/ Mount
    \/ PermissionAnswer
    \/ DevicesChanged
    \/ TakeCapture
    \/ \E i \in 1..Len(lookups) : LookupResume(i)
    \/ \E i \in 1..Len(captures) : CapturePhoto(i)
    \/ \E i \in 1..Len(captures) : CaptureRead(i)
    \/ \E i \in 1..Len(captures) : CaptureWrite(i)

ScreenSpec == ScreenInit /\ [][ScreenNext]_vars

\* ---- the selected id changes ----

\* ids setSelectedPokemonId is called with: the default and one other creature
SelectableIds == {DEFAULT_POKEMON_ID} \cup {c \in Creatures : c <= 1}

\* line 31 and lines 41-51: setSelectedPokemonId(id) with another id; the
\* component renders again and the effect, whose dependency changed, calls
\* getPokemonBasic(id). Nothing cancels the lookups already made and nothing
\* resets selectedPokemonSprite
SelectPokemon(id) ==
    /\ permission # "unrequested"
    /\ id # selectedPokemonId
    /\ Len(lookups) < MaxLookups
    /\ selectedPokemonId' = id
    /\ lookups' = Append(lookups, [id |-> id, pc |-> "fetch"])
    /\ UNCHANGED <<store, calls, platform, device, hasPermission, permission,
                   selectedPokemonSprite, captures, now>>

\* the screen with a caller of setSelectedPokemonId (the source has the setter
\* and the effect that depends on the id, and as yet no control that calls it)
SelectionInit ==
    /\ store = [k \in AllKeys |-> Absent]
    /\ calls = <<>>
    /\ ScreenIdle

SelectionNext ==
    \/ Mount
    \/ PermissionAnswer
    \/ TakeCapture
    \/ \E id \in SelectableIds : SelectPokemon(id)
    \/ \E i \in 1..Len(lookups) : LookupResume(i)
    \/ \E i \in 1..Len(captures) : CapturePhoto(i)
    \/ \E i \in 1..Len(captures) : CaptureRead(i)
    \/ \E i \in 1..Len(captures) : CaptureWrite(i)

SelectionSpec == SelectionInit /\ [][SelectionNext]_vars

-----------------------------------------------------------------------------
(* Properties of fetchPokemonDetail *)

DetailCalls == {i \in 1..Len(calls) : calls[i].op = "detail" /\ calls[i].pc # "collected"}

\* JSON.parse(JSON.stringify(v)) of an entry or of null
RoundTrip(v) == IF v = NullV THEN NullV ELSE Parse(Text(StringifyObject(v)))

\* calls i and j are fetchPokemonDetail calls with the same key, and j began
\* after i had completed
SecondCall(i, j) ==
    /\ i \in DetailCalls /\ j \in DetailCalls
    /\ calls[j].pc = "done"
    /\ i \in calls[j].prior
    /\ calls[i].arg = calls[j].arg

\* C1 as stated: a second fetchPokemonDetail call with the same key returns the
\* value the first call returned and issues no network request, whatever the
\* first call returned.
C1_SecondCallSameValue ==
    \A i, j \in 1..Len(calls) :
        SecondCall(i, j) => calls[j].val = calls[i].val /\ calls[j].net = 0

\* C1 as amended: when the first call returned an entry and the second call's
\* cache read does not fail, the second call issues no network request and
\* returns the cached value: the JSON round trip of the entry a call that wrote
\* the key returned, which is the first call's entry when no other call used
\* the key.
C1_CacheHit ==
    \A i, j \in 1..Len(calls) :
        (SecondCall(i, j) /\ calls[i].val # NullV /\ calls[j].rd # "fail") =>
            /\ calls[j].net = 0
            /\ calls[j].rd = "hit"
            /\ \E w \in DetailCalls :
                  /\ calls[w].arg = calls[j].arg
                  /\ calls[w].wrote
                  /\ calls[j].val = RoundTrip(calls[w].val)
            /\ (\A w \in DetailCalls : calls[w].arg = calls[j].arg => w \in {i, j})
                  => calls[j].val = RoundTrip(calls[i].val)

\* C1's case: a second call hit the cache an earlier call filled with an entry
\* that had an undefined property, and so returned another value than that call
C1_Witness ==
    \E i, j \in 1..Len(calls) :
        /\ SecondCall(i, j)
        /\ calls[i].val # NullV
        /\ calls[j].rd = "hit"
        /\ calls[j].val # calls[i].val

\* C4 as stated: on a cache miss, when the primary fetch succeeds and the
\* species fetch fails, fetchPokemonDetail returns an entry whose speciesData
\* is the empty object, however the rest of the call (the cache write) goes.
C4_SpeciesFailureYieldsEntry ==
    \A i \in DetailCalls :
        (calls[i].pc = "done" /\ calls[i].primary = "ok" /\ calls[i].species = "failed"
            /\ calls[i].net = 2) =>
            /\ calls[i].val # NullV
            /\ calls[i].val.speciesData = EmptyObject

-----------------------------------------------------------------------------
(* Properties of fetchPokemonList and of the Catalog Client as a whole *)

ListCalls == {i \in 1..Len(calls) : calls[i].op = "list"}

\* call j is a fetchPokemonList call that began after the fetchPokemonList
\* call i had written the list cache and returned
WarmCall(i, j) ==
    /\ i \in ListCalls /\ j \in ListCalls
    /\ calls[j].pc = "done"
    /\ i \in calls[j].prior
    /\ calls[i].wrote

\* JSON.parse(JSON.stringify(list))
RoundTripList(list) == Parse(Text(StringifyArray(list)))

\* C2 as stated: with the list cache warm, a further fetchPokemonList call
\* returns the list the earlier call returned and issues no request at all.
C2_WarmListIdentical ==
    \A i, j \in 1..Len(calls) :
        WarmCall(i, j) => calls[j].val = calls[i].val /\ NetOf(j) = 0

\* C2 as amended: with the list cache warm, a further fetchPokemonList call
\* whose cache read does not fail issues no request (index or detail) and
\* returns the cached list: the JSON round trip of the list a call that wrote
\* the cache returned, which is the earlier call's list when no other
\* fetchPokemonList call ran.
C2_WarmListHit ==
    \A i, j \in 1..Len(calls) :
        (WarmCall(i, j) /\ calls[j].rd # "fail") =>
            /\ NetOf(j) = 0
            /\ Children(j) = {}
            /\ calls[j].rd = "hit"
            /\ \E w \in ListCalls : calls[w].wrote /\ calls[j].val = RoundTripList(calls[w].val)
            /\ ListCalls = {i, j} => calls[j].val = RoundTripList(calls[i].val)

\* C2's case: a call hit the list cache an earlier call had filled with a
\* non-empty list
C2_Witness ==
    \E i, j \in 1..Len(calls) :
        /\ WarmCall(i, j)
        /\ calls[j].rd = "hit"
        /\ calls[j].val # <<>>
        /\ calls[j].val = calls[i].val

\* C3: when the index request fails (transport error, status not ok, body
\* unparsable or without results) on a cold cache, fetchPokemonList has
\* returned the empty list, raised nothing, called fetchPokemonDetail for
\* nothing and not written the list cache.
C3_IndexFailureEmptyList ==
    \A i \in ListCalls :
        calls[i].primary = "fail" =>
            /\ calls[i].pc = "done"
            /\ calls[i].status = "returned"
            /\ calls[i].val = <<>>
            /\ Children(i) = {}
            /\ NetOf(i) = 1
            /\ ~calls[i].wrote
            /\ calls[i].rd \in {"miss", "fail", "unparsable"}

\* C3's case: an index request failed after a cache miss, while the list
\* cache was still empty
C3_Witness ==
    \E i \in ListCalls :
        /\ calls[i].primary = "fail"
        /\ calls[i].rd = "miss"
        /\ store[POKEMON_LIST_CACHE_KEY] = Absent

\* C7: no call of fetchPokemonList, fetchPokemonDetail or getPokemonBasic ends
\* in a raised error, whatever fails: a completed fetchPokemonList has
\* returned a list, a completed fetchPokemonDetail or getPokemonBasic an
\* entry or null.
C7_NothingRaised ==
    \A i \in 1..Len(calls) :
        /\ calls[i].status # "raised"
        /\ calls[i].pc = "done" =>
              /\ calls[i].status = "returned"
              /\ calls[i].op = "list" => DOMAIN calls[i].val = 1..Len(calls[i].val)
              /\ calls[i].op # "list" => (calls[i].val = NullV \/ "id" \in DOMAIN calls[i].val)

\* C7's case: calls of all three operations have completed, among them a
\* fetchPokemonDetail whose cache read and cache write both failed and a
\* fetchPokemonList whose index request failed
C7_Witness ==
    /\ \E i \in 1..Len(calls) :
          /\ calls[i].op = "detail" /\ calls[i].pc = "done"
          /\ calls[i].rd = "fail" /\ calls[i].primary = "ok" /\ calls[i].val = NullV
    /\ \E i \in 1..Len(calls) :
          calls[i].op = "list" /\ calls[i].pc = "done" /\ calls[i].primary = "fail"

-----------------------------------------------------------------------------
(* Properties of the Capture Screen *)

\* the takeCapture calls whose setItem resolved
Saved == {i \in 1..Len(captures) : captures[i].wr = "ok"}

\* the list under 'captures'
Persisted == Parse(store[CAPTURES_KEY])

\* the record takeCapture call i is to store: the id and the sprite of the
\* render whose button was pressed, the uri of its photo, the time it was built at
RecordOf(i) ==
    LET c == captures[i]
    IN  [id |-> ToString(c.id),
         name |-> "pokemon-" \o ToString(c.id),
         sprite |-> c.sprite,
         photoUri |-> IF platform = "android" THEN "file://" \o c.path ELSE c.path,
         timestamp |-> ToString(c.time)]

CaptureRecordFields == {"id", "name", "sprite", "photoUri", "timestamp"}

\* C5: two takeCapture calls that both succeed, the second begun after the
\* first has ended, the first finding 'captures' absent, leave under 'captures'
\* the list of their two records in the order of the calls, each with the id,
\* name, sprite, photoUri and timestamp of its call.
C5_TwoCapturesInOrder ==
    \A i, j \in 1..Len(captures) :
        (/\ Saved = {i, j} /\ i # j
         /\ i \in captures[j].prior
         /\ captures[i].rd = "absent") =>
            Persisted = <<RecordOf(i), RecordOf(j)>>

\* C5's case: two captures in sequence, the overlay sprite having arrived
\* between them
C5_Witness ==
    \E i, j \in 1..Len(captures) :
        /\ Saved = {i, j} /\ i # j
        /\ i \in captures[j].prior
        /\ captures[i].rd = "absent"
        /\ captures[i].sprite = Null /\ captures[j].sprite # Null
        /\ captures[i].time < captures[j].time

\* C6: a takeCapture called while the overlay sprite is null (the lookup is
\* pending, failed or gave no sprite) that succeeds has appended a well-formed
\* CaptureRecord with sprite null and the selected id: the record is the last
\* of the list it wrote, and of 'captures' while no other call writes after it.
C6_CaptureWithoutSprite ==
    \A i \in Saved :
        captures[i].sprite = Null =>
            /\ DOMAIN captures[i].entry = CaptureRecordFields
            /\ captures[i].entry.sprite = Null
            /\ captures[i].entry.id = ToString(selectedPokemonId)
            /\ captures[i].entry = RecordOf(i)
            /\ (Saved \ {i} \subseteq captures[i].prior) =>
                  /\ Persisted # <<>>
                  /\ Persisted[Len(Persisted)] = captures[i].entry

\* C6's case: a capture succeeded while the lookup was still pending, another
\* after the lookup had ended without a sprite
C6_Witness ==
    /\ \E i \in Saved : \E l \in 1..Len(lookups) :
          captures[i].sprite = Null /\ lookups[l].pc = "fetch"
          /\ Persisted[Len(Persisted)] = captures[i].entry

\* C8 as stated: 'captures' is append-only however takeCapture calls
\* interleave: the record of every call that reported success is in the list,
\* and the list holds as many records as calls reported success.
C8_AppendOnly ==
    Saved # {} =>
        /\ \A i \in Saved : \E n \in 1..Len(Persisted) : Persisted[n] = captures[i].entry
        /\ Len(Persisted) >= Cardinality(Saved)

\* C9 as stated: the view is AwaitingPermission until the permission request
\* is answered, and from then on Ready (answer 'granted') or PermissionDenied
\* (any other answer).
C9_ViewFollowsAnswer ==
    /\ permission \in {"unrequested", "pending"} => View = "loading"
    /\ permission = "granted" => View = "ready"
    /\ permission \in {"denied", "restricted"} => View = "denied"

\* C9 as amended: hasPermission is null until the one permission request is
\* answered and from then on true (answer 'granted') or false (any other
\* answer); the view is Ready or PermissionDenied accordingly while a back
\* camera device is present, and the loading view whenever none is, or the
\* request was rejected.
C9_PermissionStates ==
    /\ permission \in {"unrequested", "pending", "rejected"} =>
          hasPermission = Null /\ View = "loading"
    /\ permission = "granted" =>
          hasPermission = "true" /\ View = IF device THEN "ready" ELSE "loading"
    /\ permission \in {"denied", "restricted"} =>
          hasPermission = "false" /\ View = IF device THEN "denied" ELSE "loading"

\* C9's case: the answer was neither 'granted' nor 'denied' and the screen
\* shows PermissionDenied
C9_Witness == permission = "restricted" /\ View = "denied"

\* C10 as stated: a takeCapture that finds 'captures' absent or unparsable
\* goes on with the empty list: it writes the list of its one record and,
\* the write done, reports success.
C10_UnparsableAsEmpty ==
    \A i \in 1..Len(captures) :
        captures[i].rd \in {"absent", "unparsable"} =>
            \/ captures[i].pc = "write" /\ captures[i].existing = <<captures[i].entry>>
            \/ captures[i].pc = "done" /\ captures[i].wr = "ok"
                                       /\ captures[i].notice = "Captured!"
            \/ captures[i].pc = "done" /\ captures[i].wr = "fail"

-----------------------------------------------------------------------------
(* Properties of the caches *)

\* the cache keys: the list key and the detail keys
CacheKeys == AllKeys \ {CAPTURES_KEY}

\* the key a fetchPokemonList or fetchPokemonDetail call reads and writes
KeyOf(c) == IF c.op = "list" THEN POKEMON_LIST_CACHE_KEY
            ELSE POKEMON_DETAIL_CACHE_PREFIX \o c.arg

\* C11 as stated: a cache key is written at most once and, once written, its
\* value never changes: no step changes a key that holds a value the code
\* wrote, and no call's setItem resolves on such a key.
C11_WriteOnce ==
    [][/\ \A k \in CacheKeys : store[k].cell = "json" => store'[k] = store[k]
       /\ \A i \in 1..Len(calls) :
              (calls[i].op # "basic" /\ ~calls[i].wrote /\ calls'[i].wrote) =>
                  store[KeyOf(calls[i])].cell # "json"]_vars

\* C12 as stated: on a cold list cache with a successful index fetch,
\* fetchPokemonList returns the non-null results of its fetchPokemonDetail
\* calls in index order, and what it writes under the list key is that list.
C12_ListIsNonNullDetails ==
    [][\A i \in 1..Len(calls) :
          (calls[i].op = "list" /\ calls[i].pc = "write" /\ calls'[i].pc = "done") =>
              /\ calls'[i].val = FilterNonNull(calls[i].results)
              /\ calls'[i].wrote =>
                    store'[POKEMON_LIST_CACHE_KEY] = Text(StringifyArray(calls'[i].val))]_vars

\* C13: fetchPokemonList fans out and in. The step that takes the index answer
\* starts one fetchPokemonDetail per result, in index order, all of them pending
\* at their first await; the call leaves its Promise.all only when each of them
\* has completed, and it neither writes the list cache nor returns while one
\* of them has not.
C13_FanOutFanIn ==
    [][\A i \in 1..Len(calls) :
          calls[i].op = "list" =>
              /\ (calls[i].pc = "index" /\ calls'[i].pc = "join") =>
                    /\ Children(i) = {}
                    /\ \A j \in (Len(calls) + 1)..Len(calls') :
                          /\ calls'[j].op = "detail" /\ calls'[j].parent = i
                          /\ calls'[j].pc = "read" /\ calls'[j].status = "pending"
                          /\ calls'[j].arg = Catalog[j - Len(calls)]
              /\ (calls[i].pc = "join" /\ calls'[i].pc # "join") =>
                    \A j \in Children(i) : calls[j].pc = "done"
              /\ (calls[i].pc # "done" /\ calls'[i].pc = "done") =>
                    \A j \in Children(i) : calls[j].pc \in {"done", "collected"}
              /\ (~calls[i].wrote /\ calls'[i].wrote) =>
                    /\ calls[i].pc = "write"
                    /\ \A j \in Children(i) : calls[j].pc = "collected"]_vars

\* C13's case: two fetchPokemonDetail calls of one fetchPokemonList are in
\* flight at once, past their cache checks, while the list call waits
C13_Witness ==
    \E i \in 1..Len(calls) : \E j, k \in Children(i) :
        /\ calls[i].op = "list" /\ calls[i].pc = "join"
        /\ j # k
        /\ calls[j].pc = "species" /\ calls[k].pc = "fetch"

\* the detail keys of creature c
IdKey(c) == POKEMON_DETAIL_CACHE_PREFIX \o IdOf(c)
NameKey(c) == POKEMON_DETAIL_CACHE_PREFIX \o NameOf(c)

\* call j is the one fetchPokemonDetail(id) call for creature c, past its cache
\* check, and an entry is cached under the creature's name
ByIdAfterName(j, c) ==
    /\ calls[j].op = "detail" /\ calls[j].parent = 0
    /\ calls[j].arg = IdOf(c)
    /\ calls[j].pc # "read"
    /\ store[NameKey(c)].cell = "json"
    /\ \A w \in 1..Len(calls) : calls[w].arg = IdOf(c) => w = j

\* C14: the id and the name of a creature are distinct cache keys. With an
\* entry cached under pokemon_detail_<name>, a fetchPokemonDetail(id) call does
\* not hit the cache: it issues a network request, and what it writes it
\* writes under pokemon_detail_<id>, a key other than the name's, which holds
\* nothing the code wrote unless this call wrote it.
C14_DistinctKeys ==
    \A j \in 1..Len(calls) : \A c \in Creatures :
        ByIdAfterName(j, c) =>
            /\ calls[j].rd \in {"miss", "fail", "unparsable"}
            /\ calls[j].net >= 1
            /\ IdKey(c) # NameKey(c)
            /\ calls[j].wrote => store[IdKey(c)] = Text(StringifyObject(calls[j].val))
            /\ ~calls[j].wrote => store[IdKey(c)].cell # "json"

\* C14's case: fetchPokemonDetail(name) cached an entry, then
\* fetchPokemonDetail(id) for the same creature missed, fetched and wrote its
\* own key
C14_Witness ==
    \E i, j \in 1..Len(calls) : \E c \in Creatures :
        /\ ByIdAfterName(j, c)
        /\ i \in calls[j].prior
        /\ calls[i].op = "detail" /\ calls[i].arg = NameOf(c) /\ calls[i].wrote
        /\ calls[j].rd = "miss" /\ calls[j].wrote
        /\ store[IdKey(c)].cell = "json" /\ store[NameKey(c)].cell = "json"

\* C15 as stated: a fetchPokemonList or fetchPokemonDetail call whose cache
\* read failed or met an unparsable value goes on to the network and, the
\* fetch having succeeded, returns the fetched value (the entry built, the
\* non-null results) and writes that value over the cache key.
C15_ReadFailureIsMiss ==
    [][\A i \in 1..Len(calls) :
          (/\ calls[i].op # "basic" /\ calls[i].parent = 0
           /\ calls[i].rd \in {"fail", "unparsable"}
           /\ calls[i].primary = "ok"
           /\ calls[i].op = "detail" => calls[i].species = "ok"
           /\ calls[i].pc # "done" /\ calls'[i].pc = "done") =>
              /\ calls[i].pc = "write"
              /\ calls[i].net >= 1
              /\ calls'[i].val = calls[i].val
              /\ calls[i].op = "detail" => calls'[i].val # NullV
              /\ calls[i].op = "list" => calls'[i].val = FilterNonNull(calls[i].results)
              /\ calls'[i].wrote =>
                    store'[KeyOf(calls[i])] =
                        Text(IF calls[i].op = "list" THEN StringifyArray(calls'[i].val)
                             ELSE StringifyObject(calls'[i].val))]_vars

-----------------------------------------------------------------------------
(* Properties of takeCapture's notices and guards *)

\* C16: a takeCapture that got past the camera check ends with exactly one
\* notice, shown once and never replaced. "Captured!" is shown by the step at
\* which the call's setItem resolves and by no other; when takePhoto, getItem
\* (or the parse) or setItem fails the notice is "Error", the call ends there
\* (no further step of it), it has written nothing and the step leaves
\* 'captures' as it was.
C16_OneNotice ==
    [][\A i \in 1..Len(captures) :
          LET c == captures[i]
              d == captures'[i]
          IN  /\ (c.camera /\ d.pc = "done") =>
                    /\ d.status = "returned"
                    /\ d.notice \in {"Captured!", "Error"}
                    /\ d.notice = "Captured!" <=> d.wr = "ok"
              /\ d.pc # "done" => d.notice = "none"
              /\ c.notice # "none" => d = c
              /\ (c.pc # "done" /\ d.notice = "Captured!") =>
                    /\ c.pc = "write"
                    /\ store'[CAPTURES_KEY] = Text(StringifyArray(c.existing))
              /\ (c.pc # "done" /\ d.notice = "Error") =>
                    /\ d.wr # "ok"
                    /\ "fail" \in {d.rd, d.wr} \/ d.rd = "unparsable" \/ c.pc = "photo"
                    /\ store' = store]_vars

\* C16's case: one capture reported success, a later one failed at its write
\* and showed the failure notice, and 'captures' still holds the first record
C16_Witness ==
    \E i, j \in 1..Len(captures) :
        /\ i \in captures[j].prior
        /\ captures[i].notice = "Captured!"
        /\ captures[j].wr = "fail" /\ captures[j].notice = "Error"
        /\ Persisted # <<>>
        /\ Persisted[Len(Persisted)] = captures[i].entry

-----------------------------------------------------------------------------
(* Properties of the overlay sprite when the selected id changes *)

\* the lookup of the latest run of the sprite effect, which the selected id
\* started, is pending
LookupPending ==
    /\ lookups # <<>>
    /\ lookups[Len(lookups)].id = selectedPokemonId
    /\ lookups[Len(lookups)].pc = "fetch"

SpritesFor(c) == {Null, SpriteOf(c), ArtworkOf(c)}

-----------------------------------------------------------------------------
(* Consistency of the two caches *)

\* the list stored under the list key (empty while nothing is stored)
CachedList ==
    IF store[POKEMON_LIST_CACHE_KEY].cell = "json" THEN Parse(store[POKEMON_LIST_CACHE_KEY])
    ELSE <<>>

\* C19 as stated: every entry of the list stored under pokemon_list_cache_v2
\* has a value stored under pokemon_detail_<its name>, and that value is the
\* entry.
C19_CachesConsistent ==
    \A n \in 1..Len(CachedList) :
        LET e == CachedList[n]
        IN  store[POKEMON_DETAIL_CACHE_PREFIX \o e.name] = Text(e)

-----------------------------------------------------------------------------
(* Where captures are written from *)

\* C20 as stated: 'captures' changes only while the screen is in Ready, and a
\* takeCapture invoked without a camera reference takes no photo, reads and
\* writes nothing and shows no notice.
C20_WrittenOnlyInReady ==
    [][/\ store'[CAPTURES_KEY] # store[CAPTURES_KEY] =>
             (hasPermission = "true" /\ device)
       /\ \A i \in 1..Len(captures) : ~captures[i].camera => captures'[i] = captures[i]]_vars

\* C20 as amended: 'captures' is written only by a takeCapture that was invoked
\* while the screen was in Ready (permission granted, back camera present, so
\* the camera reference set); its write may resolve after the screen has left
\* Ready. A takeCapture invoked without a camera reference has ended at once:
\* no photo, no storage read or write, no notice, and it never acts again.
C20_WrittenOnlyFromReady ==
    [][/\ Len(captures') > Len(captures) =>
             LET d == captures'[Len(captures')]
             IN  /\ d.camera <=> (hasPermission = "true" /\ device)
                 /\ ~d.camera =>
                       /\ d.pc = "done" /\ d.notice = "none"
                       /\ d.path = "" /\ d.entry = NoEntry
                       /\ d.rd = "none" /\ d.wr = "none"
                       /\ store' = store
       /\ \A i \in 1..Len(captures) : ~captures[i].camera => captures'[i] = captures[i]
       /\ store'[CAPTURES_KEY] # store[CAPTURES_KEY] =>
             \E i \in 1..Len(captures) :
                 /\ captures[i].camera /\ captures[i].pc = "write"
                 /\ captures'[i].wr = "ok"]_vars

\* C20's case: a takeCapture invoked without a camera reference has ended
\* silently, and one invoked in Ready has written its record after the back
\* camera went away
C20_Witness ==
    \E i, j \in 1..Len(captures) :
        /\ ~captures[i].camera /\ captures[i].pc = "done" /\ captures[i].notice = "none"
        /\ captures[j].camera /\ captures[j].wr = "ok"
        /\ ~device
        /\ Persisted[Len(Persisted)] = captures[j].entry

====
